---- MODULE Spec2Model ----
(***************************************************************************)
(* Model of leaderboard.go: a leaderboard kept in a Redis sorted set.      *)
(* The sorted set is a function from the member IDs it holds to their      *)
(* scores; every Redis command the handlers send is an operator on it.     *)
(* Members are sent to Redis as the decimal text of the uint64 PlayerID,   *)
(* and Redis orders members of equal score by comparing that text.         *)
(***************************************************************************)
EXTENDS Integers, Sequences, FiniteSets, TLC

\* ---- bounds of the model ----
NumIds == 3
MaxScore == 2
MaxPageSize == 3
MaxMut == 3
NumCallers == 2

\* Player IDs the callers use: one-digit and two-digit IDs, and 0 (the
\* PlayerID of a zero-value User).
IdPool == <<2, 10, 0, 1, 11, 3>>
Ids == {IdPool[i] : i \in 1..NumIds}
Scores == 0..MaxScore
PageSizes == 1..MaxPageSize
Pages == -1..(NumIds + 1)
Positions == -2..(NumIds + 1)

\* The leaderboard under test and a second key of the same Redis server.
LbName == "lb"
OtherName == "other"
Names == {"lb", "other"}

\* ---- data ----
User(playerid, score, rank) == [PlayerID |-> playerid, Score |-> score, Rank |-> rank]
ZeroUser == User(0, 0, 0)

EmptyZSet == [m \in {} |-> 0]
ZSetsOver(S) == UNION {[D -> Scores] : D \in SUBSET S}

\* ---- the member as Redis sees it: decimal text, compared byte-wise ----
RECURSIVE Decimal(_)
Decimal(n) == IF n < 10 THEN <<n>> ELSE Append(Decimal(n \div 10), n % 10)

Min(a, b) == IF a < b THEN a ELSE b
Max(a, b) == IF a > b THEN a ELSE b

\* memcmp order of two digit strings: first differing byte decides, a proper
\* prefix is smaller
LexLess(a, b) ==
    \/ \E k \in 1..Min(Len(a), Len(b)) :
          /\ \A j \in 1..(k - 1) : a[j] = b[j]
          /\ a[k] < b[k]
    \/ /\ Len(a) < Len(b)
       /\ \A j \in 1..Len(a) : a[j] = b[j]

\* plausible bug: members compared as numbers
NumLess(a, b) ==
    \/ Len(a) < Len(b)
    \/ Len(a) = Len(b) /\ LexLess(a, b)

MemberLess(a, b) == LexLess(a, b)

\* plausible bug: the order ignores the member when the scores tie
BeforeScoreOnly(z, a, b) == z[a] > z[b]

\* a comes before b in the reverse (high to low) order of sorted set z
Before(z, a, b) ==
    \/ z[a] > z[b]
    \/ z[a] = z[b] /\ MemberLess(Decimal(b), Decimal(a))

\* ---- Redis commands on one sorted set; replies as redis.Int reads them ----
\* a nil reply makes redis.Int return 0 and ErrNil
Reply(val) == [val |-> val, err |-> FALSE]
NilReply == [val |-> 0, err |-> TRUE]

\* plausible bug: ZADD NX, which leaves the score of an existing member alone
ZADDOnlyNew(z, score, m) ==
    [x \in (DOMAIN z) \cup {m} |-> IF x = m /\ m \notin DOMAIN z THEN score ELSE z[x]]

ZADD(z, score, m) == [x \in (DOMAIN z) \cup {m} |-> IF x = m THEN score ELSE z[x]]
ZREM(z, m) == [x \in (DOMAIN z) \ {m} |-> z[x]]
ZCARD(z) == Cardinality(DOMAIN z)
ZCOUNT(z) == Cardinality(DOMAIN z)
ZSCORE(z, m) == IF m \in DOMAIN z THEN Reply(z[m]) ELSE NilReply
ZREVRANK(z, m) ==
    IF m \in DOMAIN z
    THEN Reply(Cardinality({x \in DOMAIN z : Before(z, x, m)}))
    ELSE NilReply

\* ZREVRANGE key start stop WITHSCORES: negative indexes count from the end,
\* stop is clamped to the last element; the reply lists <<member, score>>
ZREVRANGE(z, start, stop) ==
    LET n  == ZCARD(z)
        s0 == IF start < 0 THEN Max(start + n, 0) ELSE start
        e0 == IF stop < 0 THEN stop + n ELSE Min(stop, n - 1)
        at(i) == CHOOSE m \in DOMAIN z : ZREVRANK(z, m).val = i
    IN  IF s0 > e0 \/ s0 >= n
        THEN << >>
        ELSE [i \in 1..(e0 - s0 + 1) |-> <<at(s0 + i - 1), z[at(s0 + i - 1)]>>]

\* ---- private functions ----
\* users is allocated with pageSize zero-value entries and the reply is
\* written over its head. Every caller asks for endOffset - startOffset + 1 =
\* pageSize elements, so the reply never holds more pairs than users has
\* room for (users[i] past the end would panic).
getMembersByRange(z, pageSize, startOffset, endOffset) ==
    LET values == ZREVRANGE(z, startOffset, endOffset)
    IN  [i \in 1..Max(pageSize, Len(values)) |->
            IF i <= Len(values)
            THEN User(values[i][1], values[i][2], ZREVRANK(z, values[i][1]).val + 1)
            ELSE ZeroUser]

\* ---- public functions, as functions of the sorted set they read ----
RankMemberUser(z, playerID, score) ==
    LET z2 == ZADD(z, score, playerID)
        r  == ZREVRANK(z2, playerID)
        rank == IF r.err THEN -1 ELSE r.val
    IN  User(playerID, score, rank + 1)

TotalMembersOf(z) == ZCARD(z)

\* plausible bug: pages counted as total / pageSize + 1
TotalPagesFloorPlusOne(z, pageSize) == (Cardinality(DOMAIN z) \div pageSize) + 1

\* int(math.Ceil(float64(total) / float64(l.PageSize)))
TotalPagesOf(z, pageSize) == (ZCOUNT(z) + pageSize - 1) \div pageSize

GetMemberOf(z, playerID) ==
    LET r == ZREVRANK(z, playerID)
        rank == IF r.err THEN 0 ELSE r.val
        s == ZSCORE(z, playerID)
        score == IF s.err THEN 0 ELSE s.val
    IN  User(playerID, score, rank + 1)

GetRankOf(z, playerID) == ZREVRANK(z, playerID).val + 1

GetAroundMeOf(z, pageSize, playerID) ==
    LET currentUser == GetMemberOf(z, playerID)
        so == currentUser.Rank - (pageSize \div 2)
        startOffset == IF so < 0 THEN 0 ELSE so
        endOffset == (startOffset + pageSize) - 1
    IN  getMembersByRange(z, pageSize, startOffset, endOffset)

GetLeadersOf(z, pageSize, page) ==
    LET p1 == IF page < 1 THEN 1 ELSE page
        p2 == IF p1 > TotalPagesOf(z, pageSize) THEN TotalPagesOf(z, pageSize) ELSE p1
        redisIndex == p2 - 1
        so == redisIndex * pageSize
        startOffset == IF so < 0 THEN 0 ELSE so
        endOffset == (startOffset + pageSize) - 1
    IN  getMembersByRange(z, pageSize, startOffset, endOffset)

\* Go's % truncates toward zero: the result has the sign of the dividend
GoMod(a, b) == IF a >= 0 THEN a % b ELSE -((-a) % b)

\* int(math.Ceil(float64(a) / float64(b))) for b > 0
CeilDiv(a, b) == -((-a) \div b)

\* the result is [user, panic]: leaders[offset] with a negative offset is an
\* index out of range
GetMemberByRankOf(z, pageSize, position) ==
    IF position <= TotalMembersOf(z)
    THEN LET currentPage == CeilDiv(position, pageSize)
             offset == GoMod(position - 1, pageSize)
             leaders == GetLeadersOf(z, pageSize, currentPage)
         IN  IF offset < 0 \/ offset >= Len(leaders)
             THEN [user |-> ZeroUser, panic |-> TRUE]
             ELSE IF leaders[offset + 1].Rank = position
                  THEN [user |-> leaders[offset + 1], panic |-> FALSE]
                  ELSE [user |-> ZeroUser, panic |-> FALSE]
    ELSE [user |-> ZeroUser, panic |-> FALSE]

\* ---- state ----
VARIABLES
    db,        \* the Redis server: key name -> sorted set
    PageSize,  \* Leaderboard.PageSize
    ret,       \* the last completed call: its arguments, what it returned
               \* (panic: it ended in a run-time panic instead), which
               \* commands the backend failed, and the store it started from
    call,      \* a call in progress while other callers run: the handler's
               \* position and locals, and what the store held meanwhile
    race       \* RankMember calls of several callers on one ID, all in
               \* progress together: each caller's position, score and
               \* result, whose ZADD ran last, and the order of the returns

vars == <<db, PageSize, ret, call, race>>

NoRet ==
    [op |-> "none", name |-> LbName, id |-> 0, arg |-> 0, user |-> ZeroUser,
     users |-> << >>, n |-> 0, err |-> FALSE, panic |-> FALSE, failed |-> {},
     follows |-> FALSE, prevUser |-> ZeroUser,
     pre |-> EmptyZSet, preDb |-> [k \in Names |-> EmptyZSet]]

Callers == 1..NumCallers

NoRace ==
    [id |-> 0, pc |-> [c \in Callers |-> "idle"], score |-> [c \in Callers |-> 0],
     nUser |-> [c \in Callers |-> ZeroUser], lastZADD |-> 0, returned |-> << >>]

\* no call in progress
IdleCall ==
    [pc |-> "idle", op |-> "none", id |-> 0, arg |-> 0, rank |-> 0, score |-> 0,
     nUser |-> ZeroUser, err |-> FALSE, seen |-> {}, atRemove |-> ZeroUser, muts |-> 0,
     page |-> 0, offset |-> 0, values |-> << >>, users |-> << >>, i |-> 0,
     panic |-> FALSE, atPos |-> {}]

Init ==
    /\ db = [k \in Names |-> EmptyZSet]
    /\ PageSize \in PageSizes
    /\ ret = NoRet
    /\ call = IdleCall
    /\ race = NoRace

\* for the functions that do not read PageSize (RankMember, RemoveMember, FlushDB)
InitOnePageSize ==
    /\ Init
    /\ PageSize = MaxPageSize

\* ---- one action per public function, called with no other caller active ----
\* plausible bug: the key is not taken from l.Name, every leaderboard shares it
RankMemberAnyKey(name, playerID, score) ==
    /\ db' = [k \in Names |-> ZADD(db[k], score, playerID)]
    /\ ret' = [NoRet EXCEPT !.op = "RankMember", !.id = playerID, !.arg = score,
                            !.user = RankMemberUser(db[name], playerID, score),
                            !.pre = db[name], !.name = name, !.preDb = db]
    /\ UNCHANGED <<PageSize, call, race>>

RankMember(name, playerID, score) ==
    /\ db' = [db EXCEPT ![name] = ZADD(db[name], score, playerID)]
    /\ ret' = [NoRet EXCEPT !.op = "RankMember", !.id = playerID, !.arg = score,
                            !.user = RankMemberUser(db[name], playerID, score),
                            !.pre = db[name], !.name = name, !.preDb = db]
    /\ UNCHANGED <<PageSize, call, race>>

TotalMembers(name) ==
    /\ ret' = [NoRet EXCEPT !.op = "TotalMembers", !.n = TotalMembersOf(db[name]),
                            !.pre = db[name], !.name = name, !.preDb = db]
    /\ UNCHANGED <<db, PageSize, call, race>>

RemoveMember(name, playerID) ==
    /\ db' = [db EXCEPT ![name] = ZREM(db[name], playerID)]
    /\ ret' = [NoRet EXCEPT !.op = "RemoveMember", !.id = playerID,
                            !.user = GetMemberOf(db[name], playerID),
                            !.pre = db[name], !.name = name, !.preDb = db]
    /\ UNCHANGED <<PageSize, call, race>>

TotalPages(name) ==
    /\ ret' = [NoRet EXCEPT !.op = "TotalPages", !.n = TotalPagesOf(db[name], PageSize),
                            !.pre = db[name], !.name = name, !.preDb = db]
    /\ UNCHANGED <<db, PageSize, call, race>>

\* plausible bug: the lookup is followed by the ZREM of RemoveMember
GetMemberAndRemove(name, playerID) ==
    /\ db' = [db EXCEPT ![name] = ZREM(db[name], playerID)]
    /\ ret' = [NoRet EXCEPT !.op = "GetMember", !.id = playerID,
                            !.user = GetMemberOf(db[name], playerID),
                            !.pre = db[name], !.name = name, !.preDb = db]
    /\ UNCHANGED <<PageSize, call, race>>

\* follows / prevUser: the call right before was RankMember of the same ID
\* on the same leaderboard, and this is what it returned
GetMember(name, playerID) ==
    /\ ret' = [NoRet EXCEPT !.op = "GetMember", !.id = playerID,
                            !.user = GetMemberOf(db[name], playerID),
                            !.follows = (ret.op = "RankMember" /\ ret.id = playerID
                                         /\ ret.name = name),
                            !.prevUser = IF ret.op = "RankMember" /\ ret.id = playerID
                                            /\ ret.name = name
                                         THEN ret.user ELSE ZeroUser,
                            !.pre = db[name], !.name = name, !.preDb = db]
    /\ UNCHANGED <<db, PageSize, call, race>>

GetAroundMe(name, playerID) ==
    /\ ret' = [NoRet EXCEPT !.op = "GetAroundMe", !.id = playerID,
                            !.users = GetAroundMeOf(db[name], PageSize, playerID),
                            !.pre = db[name], !.name = name, !.preDb = db]
    /\ UNCHANGED <<db, PageSize, call, race>>

GetRank(name, playerID) ==
    /\ ret' = [NoRet EXCEPT !.op = "GetRank", !.id = playerID,
                            !.n = GetRankOf(db[name], playerID),
                            !.pre = db[name], !.name = name, !.preDb = db]
    /\ UNCHANGED <<db, PageSize, call, race>>

GetLeaders(name, page) ==
    /\ ret' = [NoRet EXCEPT !.op = "GetLeaders", !.arg = page,
                            !.users = GetLeadersOf(db[name], PageSize, page),
                            !.pre = db[name], !.name = name, !.preDb = db]
    /\ UNCHANGED <<db, PageSize, call, race>>

GetMemberByRank(name, position) ==
    /\ ret' = [NoRet EXCEPT !.op = "GetMemberByRank", !.arg = position,
                            !.user = GetMemberByRankOf(db[name], PageSize, position).user,
                            !.panic = GetMemberByRankOf(db[name], PageSize, position).panic,
                            !.pre = db[name], !.name = name, !.preDb = db]
    /\ UNCHANGED <<db, PageSize, call, race>>

\* FLUSHALL empties every key of the server
FlushDB(name) ==
    /\ db' = [k \in Names |-> EmptyZSet]
    /\ ret' = [NoRet EXCEPT !.op = "FlushDB", !.pre = db[name], !.name = name, !.preDb = db]
    /\ UNCHANGED <<PageSize, call, race>>

Next ==
    \/ \E playerID \in Ids, score \in Scores : RankMember(LbName, playerID, score)
    \/ TotalMembers(LbName)
    \/ \E playerID \in Ids : RemoveMember(LbName, playerID)
    \/ TotalPages(LbName)
    \/ \E playerID \in Ids : GetMember(LbName, playerID)
    \/ \E playerID \in Ids : GetAroundMe(LbName, playerID)
    \/ \E playerID \in Ids : GetRank(LbName, playerID)
    \/ \E page \in Pages : GetLeaders(LbName, page)
    \/ \E position \in Positions : GetMemberByRank(LbName, position)
    \/ FlushDB(LbName)

Spec == Init /\ [][Next]_vars

\* ---- RankMember against a backend that may answer a command with an ----
\* ---- error (zaddFails, zrevrankFails: the reply to that command)     ----
\* line 130 keeps the ZADD error only for the Printf; line 134 assigns err
\* again, so the error returned is the one of ZREVRANK
RankMemberBackend(name, playerID, score, zaddFails, zrevrankFails) ==
    LET z2 == IF zaddFails THEN db[name] ELSE ZADD(db[name], score, playerID)
        r  == IF zrevrankFails THEN NilReply ELSE ZREVRANK(z2, playerID)
        rank == IF r.err THEN -1 ELSE r.val
    IN  /\ db' = [db EXCEPT ![name] = z2]
        /\ ret' = [NoRet EXCEPT !.op = "RankMember", !.id = playerID, !.arg = score,
                                !.user = User(playerID, score, rank + 1),
                                !.err = r.err,
                                !.failed = (IF zaddFails THEN {"ZADD"} ELSE {})
                                           \cup (IF zrevrankFails THEN {"ZREVRANK"} ELSE {}),
                                !.pre = db[name], !.name = name, !.preDb = db]
        /\ UNCHANGED <<PageSize, call, race>>

NextFail ==
    \/ \E playerID \in Ids, score \in Scores, zaddFails \in BOOLEAN, zrevrankFails \in BOOLEAN :
          RankMemberBackend(LbName, playerID, score, zaddFails, zrevrankFails)
    \/ \E playerID \in Ids : RemoveMember(LbName, playerID)
    \/ \E playerID \in Ids : GetMember(LbName, playerID)

SpecFail == Init /\ [][NextFail]_vars

\* ---- several callers call RankMember on one ID at the same time, each ----
\* ---- with a score of its own                                          ----
RaceOver == \A c \in Callers : race.pc[c] \in {"idle", "done"}

\* the callers are interchangeable: caller c is the one with the c-th lowest score
StartRace(name, playerID, scores) ==
    /\ RaceOver
    /\ \A c, d \in Callers : c < d => scores[c] < scores[d]
    /\ race' = [NoRace EXCEPT !.id = playerID, !.pc = [c \in Callers |-> "ZADD"],
                              !.score = scores]
    /\ UNCHANGED <<db, PageSize, ret, call>>

\* RankMember, lines 130-133, by caller c
RaceZADD(name, c) ==
    /\ race.pc[c] = "ZADD"
    /\ db' = [db EXCEPT ![name] = ZADD(db[name], race.score[c], race.id)]
    /\ race' = [race EXCEPT !.pc[c] = "ZREVRANK", !.lastZADD = c]
    /\ UNCHANGED <<PageSize, ret, call>>

\* RankMember, lines 134-144, by caller c: the call returns
RaceZREVRANK(name, c) ==
    /\ race.pc[c] = "ZREVRANK"
    /\ LET r == ZREVRANK(db[name], race.id)
           rank == IF r.err THEN -1 ELSE r.val
       IN  race' = [race EXCEPT !.pc[c] = "done",
                                !.nUser[c] = User(race.id, race.score[c], rank + 1),
                                !.returned = Append(@, c)]
    /\ UNCHANGED <<db, PageSize, ret, call>>

NextRace ==
    \/ \E playerID \in Ids, scores \in [Callers -> Scores] :
          StartRace(LbName, playerID, scores)
    \/ \E c \in Callers : RaceZADD(LbName, c)
    \/ \E c \in Callers : RaceZREVRANK(LbName, c)

SpecRace == InitOnePageSize /\ [][NextRace]_vars

\* ---- two leaderboards, with different names, on one server ----
NextMulti ==
    \/ \E playerID \in Ids, score \in Scores : RankMember(LbName, playerID, score)
    \/ \E playerID \in Ids : RankMember(OtherName, playerID, MaxScore)
    \/ \E name \in Names, playerID \in Ids : RemoveMember(name, playerID)
    \/ \E name \in Names : FlushDB(name)

SpecMulti == InitOnePageSize /\ [][NextMulti]_vars

\* the <<member, score>> that sorted set z holds at 1-based rank position
HeldAt(z, position) ==
    {<<m, z[m]>> : m \in {x \in DOMAIN z : ZREVRANK(z, x).val + 1 = position}}

\* ---- the same handlers, one Redis round trip per step, while other ----
\* ---- callers mutate the sorted set between the round trips         ----
CanStart == call.pc \in {"idle", "done"}

\* GetMember, line 180: the connection is taken, nothing is read yet
StartGetMember(name, playerID) ==
    /\ CanStart
    /\ call' = [IdleCall EXCEPT !.pc = "ZREVRANK", !.op = "GetMember", !.id = playerID,
                                !.seen = {GetMemberOf(db[name], playerID)}]
    /\ UNCHANGED <<db, PageSize, ret, race>>

\* RemoveMember, line 161: it begins with a call of GetMember
StartRemoveMember(name, playerID) ==
    /\ CanStart
    /\ call' = [IdleCall EXCEPT !.pc = "ZREVRANK", !.op = "RemoveMember", !.id = playerID]
    /\ UNCHANGED <<db, PageSize, ret, race>>

StartRankMember(name, playerID, score) ==
    /\ CanStart
    /\ call' = [IdleCall EXCEPT !.pc = "ZADD", !.op = "RankMember", !.id = playerID,
                                !.arg = score]
    /\ UNCHANGED <<db, PageSize, ret, race>>

\* GetMember, lines 183-186
StepZREVRANK(name) ==
    /\ call.pc = "ZREVRANK"
    /\ LET r == ZREVRANK(db[name], call.id)
       IN  call' = [call EXCEPT !.pc = "ZSCORE", !.rank = IF r.err THEN 0 ELSE r.val]
    /\ UNCHANGED <<db, PageSize, ret, race>>

\* GetMember, lines 187-198; RemoveMember then goes on to its ZREM
StepZSCORE(name) ==
    /\ call.pc = "ZSCORE"
    /\ LET s == ZSCORE(db[name], call.id)
           score == IF s.err THEN 0 ELSE s.val
       IN  call' = [call EXCEPT !.pc = IF call.op = "RemoveMember" THEN "ZREM" ELSE "done",
                                !.score = score,
                                !.nUser = User(call.id, score, call.rank + 1)]
    /\ UNCHANGED <<db, PageSize, ret, race>>

\* RemoveMember, lines 162-166
StepZREM(name) ==
    /\ call.pc = "ZREM"
    /\ db' = [db EXCEPT ![name] = ZREM(db[name], call.id)]
    /\ call' = [call EXCEPT !.pc = "done", !.atRemove = GetMemberOf(db[name], call.id)]
    /\ UNCHANGED <<PageSize, ret, race>>

\* RankMember, lines 130-133
StepZADD(name) ==
    /\ call.pc = "ZADD"
    /\ db' = [db EXCEPT ![name] = ZADD(db[name], call.arg, call.id)]
    /\ call' = [call EXCEPT !.pc = "ZREVRANK2"]
    /\ UNCHANGED <<PageSize, ret, race>>

\* RankMember, lines 134-144
StepZREVRANK2(name) ==
    /\ call.pc = "ZREVRANK2"
    /\ LET r == ZREVRANK(db[name], call.id)
           rank == IF r.err THEN -1 ELSE r.val
       IN  call' = [call EXCEPT !.pc = "done", !.rank = rank, !.err = r.err,
                                !.nUser = User(call.id, call.arg, rank + 1)]
    /\ UNCHANGED <<db, PageSize, ret, race>>

\* the call in progress lives through one more store state, z; a GetMember
\* in progress could have been told what z holds for its ID, a
\* GetMemberByRank in progress what z holds at its position
Observe(z) ==
    IF CanStart
    THEN call
    ELSE [call EXCEPT !.seen = IF call.op = "GetMember"
                                THEN @ \cup {GetMemberOf(z, call.id)} ELSE @,
                      !.atPos = IF call.op = "GetMemberByRank"
                                 THEN @ \cup HeldAt(z, call.arg) ELSE @,
                      !.muts = @ + 1]

\* another caller's RankMember: its ZADD takes effect at once, its reply is
\* its own business
ConcurrentRankMember(name, playerID, score) ==
    /\ CanStart \/ call.muts < MaxMut
    /\ db' = [db EXCEPT ![name] = ZADD(db[name], score, playerID)]
    /\ call' = Observe(db'[name])
    /\ UNCHANGED <<PageSize, ret, race>>

\* another caller's RemoveMember: only its ZREM changes the store
ConcurrentRemoveMember(name, playerID) ==
    /\ CanStart \/ call.muts < MaxMut
    /\ db' = [db EXCEPT ![name] = ZREM(db[name], playerID)]
    /\ call' = Observe(db'[name])
    /\ UNCHANGED <<PageSize, ret, race>>

\* ---- GetLeaders and GetMemberByRank, one Redis round trip per step ----
StartGetLeaders(name, page) ==
    /\ CanStart
    /\ call' = [IdleCall EXCEPT !.pc = "ZCOUNT", !.op = "GetLeaders",
                                !.page = IF page < 1 THEN 1 ELSE page]
    /\ UNCHANGED <<db, PageSize, ret, race>>

StartGetMemberByRank(name, position) ==
    /\ CanStart
    /\ call' = [IdleCall EXCEPT !.pc = "ZCARD", !.op = "GetMemberByRank", !.arg = position,
                                !.atPos = HeldAt(db[name], position)]
    /\ UNCHANGED <<db, PageSize, ret, race>>

\* GetMemberByRank, lines 238-241: TotalMembers, then the page and offset
StepZCARD(name) ==
    /\ call.pc = "ZCARD"
    /\ call' = IF call.arg <= ZCARD(db[name])
               THEN [call EXCEPT !.pc = "ZCOUNT",
                                 !.offset = GoMod(call.arg - 1, PageSize),
                                 !.page = IF CeilDiv(call.arg, PageSize) < 1
                                          THEN 1 ELSE CeilDiv(call.arg, PageSize)]
               ELSE [IdleCall EXCEPT !.pc = "done", !.op = call.op, !.arg = call.arg,
                                     !.atPos = call.atPos]
    /\ UNCHANGED <<db, PageSize, ret, race>>

\* GetLeaders, line 222: the first call of TotalPages
StepZCOUNT(name) ==
    /\ call.pc = "ZCOUNT"
    /\ call' = [call EXCEPT !.pc = IF call.page > TotalPagesOf(db[name], PageSize)
                                   THEN "ZCOUNT2" ELSE "ZREVRANGE"]
    /\ UNCHANGED <<db, PageSize, ret, race>>

\* GetLeaders, line 223: the second call of TotalPages
StepZCOUNT2(name) ==
    /\ call.pc = "ZCOUNT2"
    /\ call' = [call EXCEPT !.pc = "ZREVRANGE", !.page = TotalPagesOf(db[name], PageSize)]
    /\ UNCHANGED <<db, PageSize, ret, race>>

\* what the caller gets once users is complete: GetLeaders returns it (i - 1
\* of its entries were read from the store), GetMemberByRank (lines 243-248)
\* indexes it with offset and returns one User; the other locals are gone
Returned(c) ==
    IF c.op = "GetLeaders"
    THEN [IdleCall EXCEPT !.pc = "done", !.op = c.op, !.users = c.users, !.i = c.i]
    ELSE IF c.offset < 0 \/ c.offset >= Len(c.users)
         THEN [IdleCall EXCEPT !.pc = "done", !.op = c.op, !.arg = c.arg,
                               !.atPos = c.atPos, !.panic = TRUE]
         ELSE [IdleCall EXCEPT !.pc = "done", !.op = c.op, !.arg = c.arg,
                               !.atPos = c.atPos,
                               !.nUser = IF c.users[c.offset + 1].Rank = c.arg
                                         THEN c.users[c.offset + 1] ELSE ZeroUser]

\* GetLeaders, lines 225-232, and getMembersByRange, lines 99-100
StepZREVRANGE(name) ==
    /\ call.pc = "ZREVRANGE"
    /\ LET so == (call.page - 1) * PageSize
           startOffset == IF so < 0 THEN 0 ELSE so
           endOffset == (startOffset + PageSize) - 1
           values == ZREVRANGE(db[name], startOffset, endOffset)
           c == [call EXCEPT !.pc = "ZREVRANK3", !.values = values, !.i = 1,
                             !.users = [k \in 1..PageSize |-> ZeroUser]]
       IN  call' = IF Len(values) = 0 THEN Returned(c) ELSE c
    /\ UNCHANGED <<db, PageSize, ret, race>>

\* getMembersByRange, lines 102-114: one turn of the loop
StepZREVRANK3(name) ==
    /\ call.pc = "ZREVRANK3"
    /\ LET playerid == call.values[call.i][1]
           score == call.values[call.i][2]
           rank == ZREVRANK(db[name], playerid).val
           c == [call EXCEPT !.users[call.i] = User(playerid, score, rank + 1),
                             !.i = @ + 1]
       IN  call' = IF c.i > Len(c.values) THEN Returned(c) ELSE c
    /\ UNCHANGED <<db, PageSize, ret, race>>

NextLeaders ==
    \/ \E page \in Pages : StartGetLeaders(LbName, page)
    \/ StepZCOUNT(LbName)
    \/ StepZCOUNT2(LbName)
    \/ StepZREVRANGE(LbName)
    \/ StepZREVRANK3(LbName)
    \/ \E playerID \in Ids, score \in Scores : ConcurrentRankMember(LbName, playerID, score)
    \/ \E playerID \in Ids : ConcurrentRemoveMember(LbName, playerID)

SpecLeaders == Init /\ [][NextLeaders]_vars

NextByRank ==
    \/ \E position \in 1..(NumIds + 1) : StartGetMemberByRank(LbName, position)
    \/ StepZCARD(LbName)
    \/ StepZCOUNT(LbName)
    \/ StepZCOUNT2(LbName)
    \/ StepZREVRANGE(LbName)
    \/ StepZREVRANK3(LbName)
    \/ \E playerID \in Ids, score \in Scores : ConcurrentRankMember(LbName, playerID, score)
    \/ \E playerID \in Ids : ConcurrentRemoveMember(LbName, playerID)

SpecByRank == Init /\ [][NextByRank]_vars

NextConc ==
    \/ \E playerID \in Ids : StartGetMember(LbName, playerID)
    \/ \E playerID \in Ids : StartRemoveMember(LbName, playerID)
    \/ \E playerID \in Ids, score \in Scores : StartRankMember(LbName, playerID, score)
    \/ StepZREVRANK(LbName)
    \/ StepZSCORE(LbName)
    \/ StepZREM(LbName)
    \/ StepZADD(LbName)
    \/ StepZREVRANK2(LbName)
    \/ \E playerID \in Ids, score \in Scores : ConcurrentRankMember(LbName, playerID, score)
    \/ \E playerID \in Ids : ConcurrentRemoveMember(LbName, playerID)

SpecConc == Init /\ [][NextConc]_vars

\* ======================= properties of the calls =======================
lb == db[LbName]

\* the member of sorted set z that GetRank reports at rank r
MemberAtRank(z, r) == CHOOSE m \in DOMAIN z : GetRankOf(z, m) = r

\* the entries of a returned page that were read from the store (a zero-value
\* entry has Rank 0, a stored one has Rank >= 1)
Filled(users) == {i \in 1..Len(users) : users[i].Rank >= 1}

\* C1: after any sequence of RankMember and RemoveMember calls the ranks
\* reported for the current members by GetRank, GetMember and RankMember are
\* exactly 1..TotalMembers(): no rank is shared and none is missing.
C1_RanksDense ==
    /\ {GetRankOf(lb, m) : m \in DOMAIN lb} = 1..TotalMembersOf(lb)
    /\ \A a, b \in DOMAIN lb : a # b => GetRankOf(lb, a) # GetRankOf(lb, b)
    /\ \A m \in DOMAIN lb : GetMemberOf(lb, m).Rank = GetRankOf(lb, m)
    /\ ret.op = "RankMember" => ret.user.Rank = GetRankOf(lb, ret.id)

\* a removal has left at least two members with equal scores
C1_Witness ==
    /\ ret.op = "RemoveMember"
    /\ ret.id \in DOMAIN ret.pre
    /\ \E a, b \in DOMAIN lb : a # b /\ lb[a] = lb[b]

\* C2 as stated: a higher score gets a lower rank, and members of equal score
\* are ranked by ascending ID.
C2_TiesAscendingID ==
    \A a, b \in DOMAIN lb :
        /\ lb[a] > lb[b] => GetRankOf(lb, a) < GetRankOf(lb, b)
        /\ (a # b /\ lb[a] = lb[b]) => (GetRankOf(lb, a) < GetRankOf(lb, b) <=> a < b)

\* C2 amended: a higher score gets a lower rank, and members of equal score
\* are ranked by DESCENDING byte order of the decimal text of their IDs; the
\* entries GetLeaders reads from the store carry these ranks and scores, in
\* this order.
C2_TiesDescendingText ==
    /\ \A a, b \in DOMAIN lb :
        /\ lb[a] > lb[b] => GetRankOf(lb, a) < GetRankOf(lb, b)
        /\ (a # b /\ lb[a] = lb[b]) =>
              (GetRankOf(lb, a) < GetRankOf(lb, b) <=> LexLess(Decimal(b), Decimal(a)))
    /\ ret.op = "GetLeaders" =>
        /\ \A i \in Filled(ret.users) :
              /\ ret.users[i].PlayerID \in DOMAIN lb
              /\ ret.users[i].Score = lb[ret.users[i].PlayerID]
              /\ ret.users[i].Rank = GetRankOf(lb, ret.users[i].PlayerID)
        /\ \A i, j \in Filled(ret.users) :
              LET a == ret.users[i]
                  b == ret.users[j]
              IN  i < j =>
                    /\ a.Rank < b.Rank
                    /\ a.Score >= b.Score
                    /\ a.Score = b.Score => LexLess(Decimal(b.PlayerID), Decimal(a.PlayerID))

\* a page lists member 2 right before member 10 at the same score: neither
\* ascending nor descending numeric order of the IDs explains every tie
C2_Witness ==
    /\ ret.op = "GetLeaders"
    /\ \E i \in Filled(ret.users) :
          /\ i + 1 \in Filled(ret.users)
          /\ ret.users[i].PlayerID = 2
          /\ ret.users[i + 1].PlayerID = 10
          /\ ret.users[i].Score = ret.users[i + 1].Score
    /\ \E a, b \in DOMAIN lb : a > b /\ lb[a] = lb[b] /\ GetRankOf(lb, a) < GetRankOf(lb, b)

\* C5 as stated: GetRank and GetMember on an ID that is not a member return
\* something other than what they return for a member of score 0 and rank 1.
C5_NotFoundDistinct ==
    /\ (ret.op = "GetMember" /\ ret.id \notin DOMAIN ret.pre) =>
          ret.user # User(ret.id, 0, 1)
    /\ (ret.op = "GetRank" /\ ret.id \notin DOMAIN ret.pre) => ret.n # 1

\* C6 as stated: RemoveMember on an ID that is not a member leaves the store
\* as it was and tells the caller so: by an error, or by a Member it returns
\* for no ID that is a member.
C6_RemoveAbsentReported ==
    (ret.op = "RemoveMember" /\ ret.id \notin DOMAIN ret.pre) =>
        /\ lb = ret.pre
        /\ \/ ret.err
           \/ \A z \in ZSetsOver(Ids) :
                 ret.id \in DOMAIN z => GetMemberOf(z, ret.id) # ret.user

\* the page the claims describe: page clamped into 1..TotalPages, then the
\* members of ranks start..min(start + pageSize - 1, TotalMembers)
ClaimedPage(z, pageSize, page) ==
    LET pages == (Cardinality(DOMAIN z) + pageSize - 1) \div pageSize
        p     == Max(1, Min(page, pages))
        start == (p - 1) * pageSize + 1
        end   == Min(start + pageSize - 1, Cardinality(DOMAIN z))
    IN  [i \in 1..(end - start + 1) |->
            User(MemberAtRank(z, start + i - 1),
                 z[MemberAtRank(z, start + i - 1)], start + i - 1)]

\* C7 as stated: on a non-empty store GetLeaders(page) returns exactly the
\* members of the clamped page, in rank order, and nothing else.
C7_LeadersExactPage ==
    (ret.op = "GetLeaders" /\ DOMAIN ret.pre # {}) =>
        ret.users = ClaimedPage(ret.pre, PageSize, ret.arg)

\* C8 as stated: on an empty leaderboard GetLeaders returns a sequence of
\* length 0 for every page.
C8_LeadersEmpty ==
    (ret.op = "GetLeaders" /\ DOMAIN ret.pre = {}) => Len(ret.users) = 0

\* C9 as stated: GetAroundMe(id) of a current member returns an entry whose
\* ID is id, for every page size >= 1.
C9_AroundMeHasMe ==
    (ret.op = "GetAroundMe" /\ ret.id \in DOMAIN ret.pre) =>
        \E i \in 1..Len(ret.users) : ret.users[i].PlayerID = ret.id

\* C10 as stated: for a member of rank r the first entry GetAroundMe returns
\* is the member of rank max(1, r - pageSize/2).
C10_AroundMeStart ==
    (ret.op = "GetAroundMe" /\ ret.id \in DOMAIN ret.pre) =>
        LET r     == GetRankOf(ret.pre, ret.id)
            start == Max(1, r - (PageSize \div 2))
        IN  /\ Len(ret.users) >= 1
            /\ ret.users[1] =
                  User(MemberAtRank(ret.pre, start), ret.pre[MemberAtRank(ret.pre, start)], start)

\* C3 as stated: whatever other callers do meanwhile, the Member GetMember
\* returns is the Member of its ID in one store state that existed during the
\* call (a state without the ID counts as what GetMember returns for it).
C3_GetMemberOneState ==
    (call.pc = "done" /\ call.op = "GetMember") => call.nUser \in call.seen

\* C4 as stated: whatever other callers do meanwhile, the Member RemoveMember
\* returns carries the score and rank its ID had in the store state
\* immediately before the ZREM took effect.
C4_RemoveSnapshotAtomic ==
    (call.pc = "done" /\ call.op = "RemoveMember") => call.nUser = call.atRemove

\* C11 as stated: GetAroundMe on an ID that is not a member returns no
\* window: no entry of its result is a member of the leaderboard.
C11_AroundMeAbsentNoWindow ==
    (ret.op = "GetAroundMe" /\ ret.id \notin DOMAIN ret.pre) =>
        Filled(ret.users) = {}

\* C12 as stated: for every integer position GetMemberByRank completes
\* without failure and returns a member (Rank # 0) exactly when
\* 1 <= position <= TotalMembers(), and then the member of that rank.
C12_ByRankTotal ==
    ret.op = "GetMemberByRank" =>
        /\ ~ret.panic
        /\ ret.user # ZeroUser <=> (1 <= ret.arg /\ ret.arg <= Cardinality(DOMAIN ret.pre))
        /\ ret.user # ZeroUser =>
              ret.user = User(MemberAtRank(ret.pre, ret.arg),
                              ret.pre[MemberAtRank(ret.pre, ret.arg)], ret.arg)

\* C17: TotalPages() is ceil(TotalMembers() / pageSize): the least number of
\* pages of pageSize entries that hold every member, and 0 on an empty board.
C17_TotalPagesCeil ==
    ret.op = "TotalPages" =>
        LET total == Cardinality(DOMAIN ret.pre)
        IN  /\ ret.n * PageSize >= total
            /\ (ret.n - 1) * PageSize < total
            /\ total = 0 => ret.n = 0

\* TotalPages was asked with a partly filled last page behind a full one
C17_Witness ==
    /\ ret.op = "TotalPages"
    /\ Cardinality(DOMAIN ret.pre) > PageSize
    /\ Cardinality(DOMAIN ret.pre) % PageSize # 0
    /\ ret.n >= 2

\* C18: GetMember(id) called right after RankMember(id, s) returns the
\* Member RankMember returned: score s (the stored score) and the same rank,
\* which is s's place among the stored scores: below every higher score and
\* above every lower one.
C18_ReadYourWrite ==
    (ret.op = "GetMember" /\ ret.follows) =>
        /\ ret.user = ret.prevUser
        /\ ret.id \in DOMAIN lb
        /\ ret.user.Score = lb[ret.id]
        /\ ret.user.Rank > Cardinality({m \in DOMAIN lb : lb[m] > ret.user.Score})
        /\ ret.user.Rank <= Cardinality({m \in DOMAIN lb : lb[m] >= ret.user.Score})

\* GetMember ran right after a RankMember that changed the score of a member
\* and did not put it first
C18_Witness ==
    /\ ret.op = "GetMember"
    /\ ret.follows
    /\ ret.user.Rank >= 2
    /\ \E m \in DOMAIN lb : m # ret.id /\ lb[m] = ret.user.Score

QueryOps ==
    {"TotalMembers", "TotalPages", "GetMember", "GetRank", "GetLeaders",
     "GetAroundMe", "GetMemberByRank"}

\* C20: a step of TotalMembers, TotalPages, GetMember, GetRank, GetLeaders,
\* GetAroundMe or GetMemberByRank leaves every sorted set and PageSize as
\* they were, whatever its argument.
C20_QueriesReadOnly ==
    [][ret'.op \in QueryOps => (db' = db /\ PageSize' = PageSize)]_vars

\* queries with an absent ID, an out-of-range page and an out-of-range
\* position have run on a leaderboard that has members
C20_Witness ==
    /\ lb # EmptyZSet
    /\ lb = ret.pre
    /\ \/ ret.op \in {"GetMember", "GetRank", "GetAroundMe"} /\ ret.id \notin DOMAIN lb
       \/ ret.op = "GetLeaders" /\ ret.arg > Cardinality(DOMAIN lb)
       \/ ret.op = "GetMemberByRank" /\ ret.arg > Cardinality(DOMAIN lb)

\* C16 as stated: no RankMember, RemoveMember or FlushDB on one leaderboard
\* changes a leaderboard of a different name.
C16_NamesIndependent ==
    ret.op \in {"RankMember", "RemoveMember", "FlushDB"} =>
        \A k \in Names \ {ret.name} : db[k] = ret.preDb[k]

\* C16 amended: RankMember and RemoveMember on one leaderboard change no
\* leaderboard of a different name; FlushDB empties every leaderboard of the
\* server, whatever its name.
C16_IndependentButFlush ==
    /\ ret.op \in {"RankMember", "RemoveMember"} =>
          \A k \in Names \ {ret.name} : db[k] = ret.preDb[k]
    /\ ret.op = "FlushDB" => \A k \in Names : db[k] = EmptyZSet

\* a member was removed from one leaderboard while the other one holds the
\* same ID
C16_Witness ==
    /\ ret.op = "RemoveMember"
    /\ ret.name = LbName
    /\ ret.id \in DOMAIN ret.pre
    /\ ret.id \in DOMAIN db[OtherName]

\* C15 as stated: whenever the backend fails the write of RankMember, the
\* caller receives an error.
C15_WriteFailureReported ==
    (ret.op = "RankMember" /\ "ZADD" \in ret.failed) => ret.err

RaceDone == \A c \in Callers : race.pc[c] = "done"

\* how often member m is listed when the whole sorted set z is read
Occurrences(z, m) ==
    Cardinality({i \in 1..Len(ZREVRANGE(z, 0, -1)) : ZREVRANGE(z, 0, -1)[i][1] = m})

\* C14 as stated: once every racing RankMember call on one ID has returned,
\* the store holds the ID once, with the score of the call that returned last.
C14_LastReturnWins ==
    RaceDone =>
        /\ Occurrences(lb, race.id) = 1
        /\ lb[race.id] = race.score[race.returned[Len(race.returned)]]

\* C14 amended: once every racing RankMember call on one ID has returned,
\* the store holds the ID once, with the score of the call whose ZADD the
\* store executed last, which need not be the call that returned last.
C14_LastZADDWins ==
    RaceDone =>
        /\ Occurrences(lb, race.id) = 1
        /\ lb[race.id] = race.score[race.lastZADD]

\* every call has returned, and the one that returned last is not the one
\* whose ZADD ran last
C14_Witness ==
    /\ RaceDone
    /\ race.returned[Len(race.returned)] # race.lastZADD
    /\ Cardinality(DOMAIN lb) >= 2

\* C13 as stated, for positions >= 1: whatever other callers do meanwhile,
\* GetMemberByRank(position) ends without failure, and a member it returns
\* (Rank # 0) held rank position with the returned score in a store state
\* that existed during the call.
C13_ByRankFromOneState ==
    (call.pc = "done" /\ call.op = "GetMemberByRank" /\ call.arg >= 1) =>
        /\ ~call.panic
        /\ call.nUser # ZeroUser =>
              /\ call.nUser.Rank = call.arg
              /\ <<call.nUser.PlayerID, call.nUser.Score>> \in call.atPos

\* C19 as stated: whatever other callers do meanwhile, the entries GetLeaders
\* read from the store have distinct IDs and consecutive, strictly
\* increasing ranks.
C19_LeadersSnapshot ==
    (call.pc = "done" /\ call.op = "GetLeaders") =>
        /\ \A j, k \in 1..(call.i - 1) :
              j # k => call.users[j].PlayerID # call.users[k].PlayerID
        /\ \A j \in 1..(call.i - 2) :
              call.users[j + 1].Rank = call.users[j].Rank + 1

====
